---- MODULE Spec2Model ----
(***************************************************************************)
(* The reflective property editor of emer/emergent's python examples:      *)
(* pygiv.ClassView and its older variant pygi.ClassView, with the free     *)
(* callback functions that route widget events back to the bound object.   *)
(*                                                                         *)
(* Python strings are sequences of one-character strings, so that          *)
(* str.split, str.strip and concatenation are computed, not assumed.       *)
(***************************************************************************)
EXTENDS Integers, Sequences, FiniteSets, TLC

VARIABLES
    classviews,   \* module name -> (binder identifier -> binder), the two module-level dicts
    binders,      \* the ClassView instances constructed so far, in order of construction
    owners,       \* the objects that can be bound: each one's __dict__, in insertion order
    frames,       \* the gi.Frame objects created so far and their children
    last,         \* the operation that produced this state, and what it did
    tagIn,        \* directive string given to FieldTags (directive-parsing specification)
    tagOut,       \* what FieldTags returned for tagIn
    sim           \* the thread running SimState's methods: its position and locals

vars == <<classviews, binders, owners, frames, last, tagIn, tagOut, sim>>

(***************************************************************************)
(* Bounds of the model.                                                    *)
(***************************************************************************)
MaxBinders == 2     \* ClassView instances constructed in one behaviour of SpecRoute
MaxFrames == 2      \* gi.Frame objects a binder creates in one behaviour
MaxTagLen == 4      \* characters of a directive string given to FieldTags

(***************************************************************************)
(* Python strings.                                                         *)
(***************************************************************************)
RECURSIVE split(_, _)
\* str.split(sep) for a one-character separator: every occurrence cuts, empty parts kept
split(s, sep) ==
    IF \A i \in 1..Len(s) : s[i] # sep
    THEN <<s>>
    ELSE LET i == CHOOSE k \in 1..Len(s) : s[k] = sep /\ \A j \in 1..(k - 1) : s[j] # sep
         IN  <<SubSeq(s, 1, i - 1)>> \o split(SubSeq(s, i + 1, Len(s)), sep)

\* str.strip(ch): leading and trailing occurrences of ch removed
strip(s, ch) ==
    IF \A i \in 1..Len(s) : s[i] = ch
    THEN <<>>
    ELSE LET lo == CHOOSE k \in 1..Len(s) : s[k] # ch /\ \A j \in 1..(k - 1) : s[j] = ch
             hi == CHOOSE k \in 1..Len(s) : s[k] # ch /\ \A j \in (k + 1)..Len(s) : s[j] = ch
         IN  SubSeq(s, lo, hi)

s_view == <<"v", "i", "e", "w">>
s_inactive == <<"i", "n", "a", "c", "t", "i", "v", "e">>
s_minus == <<"-">>
s_plus == <<"+">>
s_lbl == <<"l", "b", "l", "_">>

Quoted(s) == <<"\"">> \o s \o <<"\"">>
\* the directive token name:"value"
Tag(name, value) == name \o <<":">> \o Quoted(value)

EmptyMap == [x \in {} |-> <<>>]
\* d[k] = v of a python dict kept as a function
Put(d, k, v) == [x \in (DOMAIN d) \cup {k} |-> IF x = k THEN v ELSE d[x]]

(***************************************************************************)
(* pygiv.ClassView.FieldTags and HasTagValue.                              *)
(***************************************************************************)
RECURSIVE TagLoop(_, _, _)
\* the loop over the tokens; acc is (tdict, number of diagnostics printed)
TagLoop(ts, i, acc) ==
    IF i > Len(ts)
    THEN acc
    ELSE LET nv == split(ts[i], ":")
         IN  IF Len(nv) = 2
             THEN TagLoop(ts, i + 1, [acc EXCEPT !.tdict = Put(@, nv[1], strip(nv[2], "\""))])
             ELSE TagLoop(ts, i + 1, [acc EXCEPT !.ndiag = @ + 1])

\* the parsed dictionary of tags of field nm, and the diagnostics printed
FieldTags(Tags, nm) ==
    IF nm \in DOMAIN Tags
    THEN TagLoop(split(Tags[nm], " "), 1, [tdict |-> EmptyMap, ndiag |-> 0])
    ELSE [tdict |-> EmptyMap, ndiag |-> 0]

HasTagValue(tags, tag, value) ==
    IF tag \notin DOMAIN tags THEN FALSE ELSE tags[tag] = value

(***************************************************************************)
(* Python values of an owner's fields: k is the runtime type, n the number *)
(* (or truth value 0/1), s the text.                                       *)
(***************************************************************************)
PyBool(b) == [k |-> "bool", n |-> IF b THEN 1 ELSE 0, s |-> <<>>]
PyInt(n) == [k |-> "int", n |-> n, s |-> <<>>]
PyFloat(n) == [k |-> "float", n |-> n, s |-> <<>>]
PyStr(s) == [k |-> "str", n |-> 0, s |-> s]
\* a go.GoClass handle; s is what its Label() returns, empty when it has no Label
GoObj(lbl) == [k |-> "GoClass", n |-> 0, s |-> lbl]
DataFrame == [k |-> "DataFrame", n |-> 0, s |-> <<>>]
List == [k |-> "list", n |-> 1, s |-> <<>>]
None == 0

Digit(n) == <<"0", "1", "2", "3", "4", "5", "6", "7", "8", "9">>[n + 1]

\* str(val)
str(val) ==
    CASE val.k = "str" -> val.s
      [] val.k = "bool" -> IF val.n = 1 THEN <<"T", "r", "u", "e">>
                                        ELSE <<"F", "a", "l", "s", "e">>
      [] val.k = "int" -> <<Digit(val.n)>>
      [] val.k = "float" -> <<Digit(val.n), ".", "0">>
      [] val.k = "list" -> <<"[", Digit(val.n), "]">>
      [] val.k = "GoClass" -> <<"<", "g", "o", ">">>
      [] val.k = "DataFrame" -> <<"<", "d", "f", ">">>

\* isinstance(val, int): bool is a subclass of int
IsInt(val) == val.k \in {"int", "bool"}
\* isinstance(val, (int, float))
IsNum(val) == val.k \in {"int", "bool", "float"}

(***************************************************************************)
(* Toolkit widgets: what the repository's code sets on them and reads back.*)
(***************************************************************************)
\* AddNewChild(type, name) followed by the setters Config calls
Widget(kind, name, val, cb, inact) ==
    [kind |-> kind, name |-> name, val |-> val, cb |-> cb, inactive |-> inact]

\* SpinBox.SetValue(val): the value is held as a Go float
SetValue(w, val) == [w EXCEPT !.val = PyFloat(val.n)]
\* CheckBox.SetChecked(val)
SetChecked(w, val) == [w EXCEPT !.val = PyBool(val.n # 0)]
\* TextField.SetText / Label.SetText / Action.SetText
SetText(w, txt) == [w EXCEPT !.val = PyStr(txt)]

(***************************************************************************)
(* Owner objects and their __dict__ (an insertion-ordered dict).           *)
(***************************************************************************)
f_x == <<"x">>
f_y == <<"y">>
f_h == <<"h">>
f_g == <<"g">>
f_d == <<"d">>

Fld(nm, val) == [nm |-> nm, val |-> val]
Names(flds) == {flds[i].nm : i \in 1..Len(flds)}
\* getattr(obj, nm)
getattr(flds, nm) == flds[CHOOSE i \in 1..Len(flds) : flds[i].nm = nm].val
\* setattr(obj, nm, val): an existing attribute is replaced in place, a new one is added
setattr(flds, nm, val) ==
    IF nm \in Names(flds)
    THEN [i \in 1..Len(flds) |-> IF flds[i].nm = nm THEN Fld(nm, val) ELSE flds[i]]
    ELSE Append(flds, Fld(nm, val))

NumVals == {3, 7}
TextVals == {<<"h", "i">>}
\* the numbers a user enters in a spin box
SpinVals == {7}
\* the values a program assigns to a field that holds a value of type k
ValuesOfType(k) ==
    CASE k = "bool" -> {PyBool(TRUE), PyBool(FALSE)}
      [] k = "int" -> {PyInt(n) : n \in NumVals}
      [] k = "float" -> {PyFloat(n) : n \in NumVals}
      [] k = "str" -> {PyStr(t) : t \in TextVals}
      [] OTHER -> {}

InitOwners ==
    << <<Fld(f_x, PyInt(3)), Fld(f_h, PyBool(TRUE)), Fld(f_y, PyStr(<<"h", "i">>)),
         Fld(f_g, GoObj(<<>>))>>,
       <<Fld(f_y, List), Fld(f_x, PyFloat(7)), Fld(f_d, DataFrame),
         Fld(f_g, GoObj(<<"N", "e", "t">>))>> >>

OwnerIds == 1..2

(***************************************************************************)
(* Binder identifiers and the tag dictionaries callers pass.               *)
(***************************************************************************)
Ids == {<<"a">>, <<"b">>, <<"a", ":", "x">>}

TagDicts ==
    { EmptyMap,
      (f_x :> Tag(s_inactive, s_plus)) @@ (f_h :> Tag(s_view, s_minus))
          @@ (f_y :> Tag(s_inactive, s_plus)),
      (f_y :> (Tag(s_view, s_minus) \o <<" ">> \o Tag(s_inactive, s_plus)))
          @@ (f_h :> Tag(s_inactive, s_plus)) @@ (f_g :> Tag(s_inactive, s_plus)),
      (f_x :> <<"b", "a", "d">>) @@ (f_d :> Tag(s_view, s_minus)),
      (f_x :> (<<"b", "a", "d", " ">> \o Tag(s_view, s_minus)))
          @@ (f_h :> (s_inactive \o <<":">> \o s_plus)) }

Mods == {"pygiv", "pygi"}

NoViews == [set |-> FALSE, fr |-> 0, ix |-> EmptyMap]

NoWrite == <<>>
\* what is recorded of an operation: the binder or the widget (frame, position) it was
\* on, the signal, whether it returned normally, the diagnostics it printed, the children
\* its frame had before, the setattr calls it made, the owners as they were before it,
\* (chg, for Update) the positions of the children it changed and (was) what those
\* children were before, and the calls of the frame's UpdateStart and UpdateEnd it made
Event(op, b, fr, ix, sig, ok, ndiag, pre, nw) ==
    [op |-> op, b |-> b, fr |-> fr, ix |-> ix, sig |-> sig, ok |-> ok, ndiag |-> ndiag,
     pre |-> pre, nw |-> nw, old |-> owners, chg |-> {}, was |-> <<>>,
     starts |-> 0, ends |-> 0]

(***************************************************************************)
(* ClassView.__init__ and AddFrame.                                        *)
(***************************************************************************)
\* a constructor that assigns classviews anew
NewReset(mod, name, tags) ==
    /\ mod = "pygi" => tags = EmptyMap
    /\ binders' = Append(binders, [mod |-> mod, Name |-> name, Tags |-> tags,
                                   Class |-> None, Frame |-> Len(frames) + 1,
                                   Views |-> NoViews, nfr |-> 1])
    /\ classviews' = [classviews EXCEPT ![mod] = Put(EmptyMap, name, Len(binders) + 1)]
    /\ frames' = Append(frames, [par |-> FALSE, kids |-> <<>>])
    /\ last' = Event("New", Len(binders) + 1, 0, 0, "", TRUE, 0, 0, 0)
    /\ UNCHANGED <<owners, tagIn, tagOut, sim>>

\* a constructor that keeps the entry of an identifier already in use
NewKeepFirst(mod, name, tags) ==
    /\ mod = "pygi" => tags = EmptyMap
    /\ binders' = Append(binders, [mod |-> mod, Name |-> name, Tags |-> tags,
                                   Class |-> None, Frame |-> Len(frames) + 1,
                                   Views |-> NoViews, nfr |-> 1])
    /\ classviews' = IF name \in DOMAIN classviews[mod]
                     THEN classviews
                     ELSE [classviews EXCEPT ![mod] = Put(@, name, Len(binders) + 1)]
    /\ frames' = Append(frames, [par |-> FALSE, kids |-> <<>>])
    /\ last' = Event("New", Len(binders) + 1, 0, 0, "", TRUE, 0, 0, 0)
    /\ UNCHANGED <<owners, tagIn, tagOut, sim>>

\* ClassView(name, tags): pygi's constructor takes no tags
New(mod, name, tags) ==
    /\ mod = "pygi" => tags = EmptyMap
    /\ binders' = Append(binders, [mod |-> mod, Name |-> name, Tags |-> tags,
                                   Class |-> None, Frame |-> Len(frames) + 1,
                                   Views |-> NoViews, nfr |-> 1])
    /\ classviews' = [classviews EXCEPT ![mod] = Put(@, name, Len(binders) + 1)]
    /\ frames' = Append(frames, [par |-> FALSE, kids |-> <<>>])
    /\ last' = Event("New", Len(binders) + 1, 0, 0, "", TRUE, 0, 0, 0)
    /\ UNCHANGED <<owners, tagIn, tagOut, sim>>

\* AddFrame(par): a new frame, child of a displayed container, replaces self.Frame.
\* The caller attaches before it binds (ra25.py ConfigGui), so the frame replaced is empty.
AddFrame(b) ==
    /\ binders[b].Class = None
    /\ binders[b].nfr < MaxFrames
    /\ frames' = Append(frames, [par |-> TRUE, kids |-> <<>>])
    /\ binders' = [binders EXCEPT ![b].Frame = Len(frames) + 1, ![b].nfr = @ + 1]
    /\ last' = Event("AddFrame", b, Len(frames) + 1, 0, "", TRUE, 0, 0, 0)
    /\ UNCHANGED <<classviews, owners, tagIn, tagOut, sim>>

(***************************************************************************)
(* pygiv.ClassView.Config and pygi.ClassView.Config.                       *)
(***************************************************************************)
\* the label of a field
Label(nm) == SetText(Widget("Label", s_lbl \o nm, PyStr(<<>>), "", FALSE), nm)

\* Config without the calls of SetInactive
InactiveNever(w, tags) == w

\* SetInactive() when the field's tags say inactive:"+"
Inactive(w, tags) ==
    IF HasTagValue(tags, s_inactive, s_plus) THEN [w EXCEPT !.inactive = TRUE] ELSE w

\* the widget pygiv creates for field nm holding val
ViewOf(cv, nm, val, tags) ==
    LET name == cv.Name \o <<":">> \o nm
    IN  IF val.k = "bool"
        THEN Inactive(SetChecked(Widget("CheckBox", name, PyBool(FALSE),
                                        "pygiv.SetBoolValCB", FALSE), val), tags)
        ELSE IF val.k = "GoClass"
        THEN Inactive(SetText(Widget("Action", name, PyStr(<<>>), "pygiv.EditGoObjCB", FALSE),
                              IF val.s # <<>> THEN val.s ELSE nm), tags)
        ELSE IF val.k = "DataFrame"
        THEN Inactive(SetText(Widget("Action", name, PyStr(<<>>), "pygiv.EditObjCB", FALSE),
                              nm), tags)
        ELSE IF IsNum(val)
        THEN Inactive(SetValue(Widget("SpinBox", name, PyFloat(0),
                                      "pygiv.SetIntValCB", FALSE), val), tags)
        ELSE Inactive(SetText(Widget("TextField", name, PyStr(<<>>),
                                     "pygiv.SetStrValCB", FALSE), str(val)), tags)

\* ConfigField without the test of view:"-"
ConfigFieldNoSkip(cv, nm, val, acc) ==
    LET ft == FieldTags(cv.Tags, nm)
    IN  [acc EXCEPT !.ndiag = @ + ft.ndiag,
                    !.kids = @ \o <<Label(nm), ViewOf(cv, nm, val, ft.tdict)>>,
                    !.Views = Put(@, nm, Len(acc.kids) + 2)]

\* one iteration of Config's loop: the children added and the registry entry made
ConfigField(cv, nm, val, acc) ==
    LET ft == FieldTags(cv.Tags, nm)
        seen == [acc EXCEPT !.ndiag = @ + ft.ndiag]
    IN  IF HasTagValue(ft.tdict, s_view, s_minus)
        THEN seen
        ELSE [seen EXCEPT !.kids = @ \o <<Label(nm), ViewOf(cv, nm, val, ft.tdict)>>,
                          !.Views = Put(@, nm, Len(acc.kids) + 2)]

\* the widget pygi creates for field nm holding val
pygi_ViewOf(cv, nm, val) ==
    LET name == cv.Name \o <<":">> \o nm
    IN  IF IsInt(val)
        THEN SetValue(Widget("SpinBox", name, PyFloat(0), "pygi.SetIntValCB", FALSE), val)
        ELSE SetText(Widget("TextField", name, PyStr(<<>>), "pygi.SetStrValCB", FALSE),
                     str(val))

pygi_ConfigField(cv, nm, val, acc) ==
    [acc EXCEPT !.kids = @ \o <<Label(nm), pygi_ViewOf(cv, nm, val)>>,
                !.Views = Put(@, nm, Len(acc.kids) + 2)]

RECURSIVE ConfigLoop(_, _, _, _)
\* for nm, val in flds.items(), after DeleteChildren and self.Views = {}; a is the value
\* of acc, taken once for the iteration
ConfigLoop(cv, flds, i, acc) ==
    IF i > Len(flds)
    THEN acc
    ELSE ConfigLoop(cv, flds, i + 1,
                    CHOOSE r \in {IF cv.mod = "pygiv"
                                  THEN ConfigField(cv, flds[i].nm, flds[i].val, a)
                                  ELSE pygi_ConfigField(cv, flds[i].nm, flds[i].val, a) :
                                  a \in {acc}} : TRUE)

\* Config without self.Views = {}: the registry keeps the entries it had
ConfigOfKeepViews(op, b, cls) ==
    LET cv == binders[b]
        built == ConfigLoop(cv, owners[cls], 1,
                            [kids |-> <<>>, Views |-> cv.Views.ix, ndiag |-> 0])
    IN  /\ cls # None
        /\ frames' = [frames EXCEPT ![cv.Frame].kids = built.kids]
        /\ binders' = [binders EXCEPT ![b].Class = cls,
                                      ![b].Views = [set |-> TRUE, fr |-> cv.Frame,
                                                    ix |-> built.Views]]
        /\ last' = [Event(op, b, cv.Frame, 0, "", TRUE, built.ndiag,
                          Len(frames[cv.Frame].kids), 0)
                       EXCEPT !.starts = 1, !.ends = 1]

\* Config without DeleteChildren: the new children follow the old ones
ConfigOfKeepChildren(op, b, cls) ==
    LET cv == binders[b]
        built == ConfigLoop(cv, owners[cls], 1,
                            [kids |-> frames[cv.Frame].kids, Views |-> EmptyMap, ndiag |-> 0])
    IN  /\ cls # None
        /\ frames' = [frames EXCEPT ![cv.Frame].kids = built.kids]
        /\ binders' = [binders EXCEPT ![b].Class = cls,
                                      ![b].Views = [set |-> TRUE, fr |-> cv.Frame,
                                                    ix |-> built.Views]]
        /\ last' = [Event(op, b, cv.Frame, 0, "", TRUE, built.ndiag,
                          Len(frames[cv.Frame].kids), 0)
                       EXCEPT !.starts = 1, !.ends = 1]

\* Config() of binder b whose owner is (now) cls
ConfigOf(op, b, cls) ==
    LET cv == binders[b]
        built == ConfigLoop(cv, owners[cls], 1, [kids |-> <<>>, Views |-> EmptyMap, ndiag |-> 0])
    IN  IF cls = None
        THEN \* self.Class.__dict__ raises after DeleteChildren; Views is not assigned
             /\ frames' = [frames EXCEPT ![cv.Frame].kids = <<>>]
             /\ binders' = binders
             \* UpdateEnd is not reached
             /\ last' = [Event(op, b, cv.Frame, 0, "", FALSE, 0, Len(frames[cv.Frame].kids), 0)
                            EXCEPT !.starts = 1]
        ELSE /\ frames' = [frames EXCEPT ![cv.Frame].kids = built.kids]
             /\ binders' = [binders EXCEPT ![b].Class = cls,
                                           ![b].Views = [set |-> TRUE, fr |-> cv.Frame,
                                                         ix |-> built.Views]]
             /\ last' = [Event(op, b, cv.Frame, 0, "", TRUE, built.ndiag,
                                Len(frames[cv.Frame].kids), 0)
                            EXCEPT !.starts = 1, !.ends = 1]

Config(b) ==
    /\ ConfigOf("Config", b, binders[b].Class)
    /\ UNCHANGED <<classviews, owners, tagIn, tagOut, sim>>

\* SetClass(cls): self.Class = cls; self.Config()
SetClass(b, cls) ==
    /\ ConfigOf("SetClass", b, cls)
    /\ UNCHANGED <<classviews, owners, tagIn, tagOut, sim>>

(***************************************************************************)
(* pygiv.ClassView.Update and pygi.ClassView.Update.                       *)
(* Update wraps the registry's widget in the class the field's current     *)
(* value selects.  When the widget is of another class the foreign call    *)
(* on the re-wrapped handle either does nothing or raises, depending on    *)
(* the binding layer: CastOutcomes.                                        *)
(***************************************************************************)
CastOutcomes == {"ignored", "raises"}

\* a setter called through a wrapper of class kind on the widget at position i
Push(acc, i, kind, w, mis) ==
    IF acc.kids[i].kind = kind
    THEN [acc EXCEPT !.kids[i] = w]
    ELSE IF mis = "raises" THEN [acc EXCEPT !.err = TRUE] ELSE acc

\* Update without the branch of the numbers
UpdateFieldNoNum(cv, nm, val, acc, mis) ==
    IF acc.err \/ nm \notin DOMAIN cv.Views.ix
    THEN acc
    ELSE LET i == cv.Views.ix[nm]
             vw == acc.kids[i]
         IN  IF val.k = "bool" THEN Push(acc, i, "CheckBox", SetChecked(vw, val), mis)
             ELSE IF val.k = "GoClass" THEN acc
             ELSE IF val.k = "DataFrame" THEN acc
             ELSE IF IsNum(val) THEN acc
             ELSE Push(acc, i, "TextField", SetText(vw, str(val)), mis)

\* one iteration of pygiv's Update loop
UpdateField(cv, nm, val, acc, mis) ==
    IF acc.err \/ nm \notin DOMAIN cv.Views.ix
    THEN acc
    ELSE LET i == cv.Views.ix[nm]
             vw == acc.kids[i]
         IN  IF val.k = "bool" THEN Push(acc, i, "CheckBox", SetChecked(vw, val), mis)
             ELSE IF val.k = "GoClass" THEN acc
             ELSE IF val.k = "DataFrame" THEN acc
             ELSE IF IsNum(val) THEN Push(acc, i, "SpinBox", SetValue(vw, val), mis)
             ELSE Push(acc, i, "TextField", SetText(vw, str(val)), mis)

\* one iteration of pygi's Update loop
pygi_UpdateField(cv, nm, val, acc, mis) ==
    IF acc.err \/ nm \notin DOMAIN cv.Views.ix
    THEN acc
    ELSE LET i == cv.Views.ix[nm]
             vw == acc.kids[i]
         IN  IF IsInt(val) THEN Push(acc, i, "SpinBox", SetValue(vw, val), mis)
             ELSE Push(acc, i, "TextField", SetText(vw, str(val)), mis)

RECURSIVE UpdateLoop(_, _, _, _, _)
\* for nm, val in flds.items(); a is the value of acc, taken once for the iteration
UpdateLoop(cv, flds, i, acc, mis) ==
    IF i > Len(flds)
    THEN acc
    ELSE UpdateLoop(cv, flds, i + 1,
                    CHOOSE r \in {IF cv.mod = "pygiv"
                                  THEN UpdateField(cv, flds[i].nm, flds[i].val, a, mis)
                                  ELSE pygi_UpdateField(cv, flds[i].nm, flds[i].val, a, mis) :
                                  a \in {acc}} : TRUE,
                    mis)

\* Update whose SetValue makes the SpinBox signal, so that SetIntValCB writes the
\* widget's value back to the field
UpdateEmitting(b, mis) ==
    LET cv == binders[b]
        done == UpdateLoop(cv, owners[cv.Class], 1,
                           [kids |-> frames[cv.Views.fr].kids, err |-> FALSE], mis)
    IN  /\ cv.Class # None
        /\ frames' = [frames EXCEPT ![cv.Views.fr].kids = done.kids]
        /\ owners' = [owners EXCEPT ![cv.Class] =
                         [i \in DOMAIN @ |->
                            IF @[i].val.k = "int" /\ @[i].nm \in DOMAIN cv.Views.ix
                            THEN Fld(@[i].nm, PyFloat(@[i].val.n))
                            ELSE @[i]]]
        /\ last' = Event("Update", b, cv.Views.fr, 0, "", ~done.err, 0, 0, 0)
        /\ UNCHANGED <<classviews, binders, tagIn, tagOut, sim>>

\* Update done as a rebuild
UpdateByConfig(b, mis) ==
    /\ ConfigOf("Update", b, binders[b].Class)
    /\ UNCHANGED <<classviews, owners, tagIn, tagOut, sim>>

UpdateOf(b, mis) ==
    LET cv == binders[b]
    IN  /\ IF cv.Class = None
           THEN \* self.Class.__dict__ raises
                /\ frames' = frames
                /\ last' = Event("Update", b, 0, 0, "", FALSE, 0, 0, 0)
           ELSE LET done == UpdateLoop(cv, owners[cv.Class], 1,
                                       [kids |-> frames[cv.Views.fr].kids, err |-> FALSE], mis)
                    changed == {i \in 1..Len(done.kids) :
                                   done.kids[i] # frames[cv.Views.fr].kids[i]}
                IN  /\ frames' = [frames EXCEPT ![cv.Views.fr].kids = done.kids]
                    /\ last' = [Event("Update", b, cv.Views.fr, 0, "", ~done.err, 0, 0, 0)
                                  EXCEPT !.chg = changed,
                                         !.was = [i \in changed |-> frames[cv.Views.fr].kids[i]]]
        /\ UNCHANGED <<classviews, binders, owners, tagIn, tagOut>>

\* ClassView.Update()
Update(b, mis) == UpdateOf(b, mis) /\ UNCHANGED sim

(***************************************************************************)
(* The callback functions.  Each returns whether it returned normally and  *)
(* the setattr calls it made, as <<[o, f, v]>>.                            *)
(***************************************************************************)
Raised == [ok |-> FALSE, wr |-> NoWrite]
Returned == [ok |-> TRUE, wr |-> NoWrite]
Wrote(o, f, v) == [ok |-> TRUE, wr |-> <<[o |-> o, f |-> f, v |-> v]>>]

\* Route with the two parts of the name taken the wrong way round for the field
RouteWrongPart(mod, nm, v) ==
    LET nms == split(nm, ":")
    IN  IF nms[1] \notin DOMAIN classviews[mod]
        THEN Raised
        ELSE LET cv == binders[classviews[mod][nms[1]]]
             IN  IF cv.Class = None THEN Raised
                 ELSE IF Len(nms) < 2 THEN Raised
                 ELSE Wrote(cv.Class, nms[1], v)

\* nms = nm.split(':'); cv = classviews[nms[0]]; flds = cv.Class.__dict__; setattr(cv.Class, nms[1], v)
Route(mod, nm, v) ==
    LET nms == split(nm, ":")
    IN  IF nms[1] \notin DOMAIN classviews[mod]
        THEN Raised                                       \* KeyError
        ELSE LET cv == binders[classviews[mod][nms[1]]]
             IN  IF cv.Class = None THEN Raised           \* None has no __dict__
                 ELSE IF Len(nms) < 2 THEN Raised         \* IndexError
                 ELSE Wrote(cv.Class, nms[2], v)

\* SetIntValCB with the text field's test of the signal
SetIntValCBOnDone(send, sig) ==
    IF sig # "TextFieldDone" THEN Returned ELSE Route("pygiv", send.name, send.val)

\* SetStrValCB without the test of the signal
SetStrValCBAnySig(send, sig) == Route("pygiv", send.name, send.val)

\* SetBoolValCB without the test of the signal
SetBoolValCBAnySig(send, sig) == Route("pygiv", send.name, PyBool(send.val.n # 0))

SetIntValCB(send, sig) == Route("pygiv", send.name, send.val)

SetStrValCB(send, sig) ==
    IF sig # "TextFieldDone" THEN Returned ELSE Route("pygiv", send.name, send.val)

SetBoolValCB(send, sig) ==
    IF sig # "ButtonToggled" THEN Returned
    ELSE Route("pygiv", send.name, PyBool(send.val.n # 0))

\* getattr(cv.Class, nms[1]) and a dialog: no assignment
EditLookup(mod, nm) ==
    LET r == Route(mod, nm, None)
    IN  IF r.ok /\ r.wr[1].f \in Names(owners[r.wr[1].o]) THEN Returned ELSE Raised

EditGoObjCB(send, sig) == EditLookup("pygiv", send.name)

EditObjCB(send, sig) == EditLookup("pygiv", send.name)

pygi_SetIntValCB(send, sig) == Route("pygi", send.name, send.val)

pygi_SetStrValCB(send, sig) ==
    IF sig = "TextFieldDone" THEN Route("pygi", send.name, send.val) ELSE Returned

\* the function connected to the widget's signal by Config
Handler(cb, send, sig) ==
    CASE cb = "pygiv.SetIntValCB" -> SetIntValCB(send, sig)
      [] cb = "pygiv.SetStrValCB" -> SetStrValCB(send, sig)
      [] cb = "pygiv.SetBoolValCB" -> SetBoolValCB(send, sig)
      [] cb = "pygiv.EditGoObjCB" -> EditGoObjCB(send, sig)
      [] cb = "pygiv.EditObjCB" -> EditObjCB(send, sig)
      [] cb = "pygi.SetIntValCB" -> pygi_SetIntValCB(send, sig)
      [] cb = "pygi.SetStrValCB" -> pygi_SetStrValCB(send, sig)

(***************************************************************************)
(* The toolkit's side of a user edit: the signals a widget class emits,    *)
(* and the widget state the handler sees when it is called.                *)
(***************************************************************************)
SignalsOf(kind) ==
    CASE kind = "SpinBox" -> {"SpinBoxValue"}
      [] kind = "CheckBox" -> {"ButtonToggled", "ButtonClicked", "ButtonPressed"}
      [] kind = "TextField" -> {"TextFieldDone", "TextFieldCleared", "TextFieldDeFocused"}
      [] kind = "Action" -> {"ActionTriggered"}
      [] OTHER -> {}

\* the values the user can give with the signal
Inputs(w, sig) ==
    CASE sig = "SpinBoxValue" -> {PyFloat(n) : n \in SpinVals}
      [] sig = "ButtonToggled" -> {PyBool(w.val.n = 0)}
      [] sig = "TextFieldDone" -> {PyStr(t) : t \in TextVals} \cup {w.val}
      [] sig = "TextFieldCleared" -> {PyStr(<<>>)}
      [] OTHER -> {w.val}

RECURSIVE ApplyWrites(_, _, _)
ApplyWrites(objs, wr, i) ==
    IF i > Len(wr)
    THEN objs
    ELSE ApplyWrites([objs EXCEPT ![wr[i].o] = setattr(@, wr[i].f, wr[i].v)], wr, i + 1)

\* a user edit of the displayed widget at position ix of frame fr: an inactive widget
\* rejects it; otherwise the widget takes the input and its signal calls the handler
Signal(fr, ix, sig, input) ==
    LET w == frames[fr].kids[ix]
        send == [w EXCEPT !.val = input]
        res == Handler(w.cb, send, sig)
    IN  /\ frames[fr].par
        /\ sig \in SignalsOf(w.kind)
        /\ input \in Inputs(w, sig)
        /\ IF w.inactive
           THEN /\ last' = Event("Rejected", 0, fr, ix, sig, TRUE, 0, 0, 0)
                /\ UNCHANGED <<frames, owners>>
           ELSE /\ frames' = [frames EXCEPT ![fr].kids[ix] = send]
                /\ owners' = ApplyWrites(owners, res.wr, 1)
                /\ last' = Event("Signal", 0, fr, ix, sig, res.ok, 0, 0, Len(res.wr))
        /\ UNCHANGED <<classviews, binders, tagIn, tagOut, sim>>

\* an assignment to an owner's field by the program (a training step, a script):
\* a value of the type the field holds
ExternalWrite(o, nm, v) ==
    /\ nm \in Names(owners[o])
    /\ v \in ValuesOfType(getattr(owners[o], nm).k)
    /\ owners' = [owners EXCEPT ![o] = setattr(@, nm, v)]
    /\ last' = Event("Write", 0, 0, 0, "", TRUE, 0, 0, 1)
    /\ UNCHANGED <<classviews, binders, frames, tagIn, tagOut, sim>>

(***************************************************************************)
(* The specification of the editor.                                        *)
(***************************************************************************)
NoTags == [tdict |-> EmptyMap, ndiag |-> 0]

\* no SimState has been constructed
NoSim == [pc |-> "none"]

Init ==
    /\ classviews = [m \in Mods |-> EmptyMap]
    /\ binders = <<>>
    /\ owners = InitOwners
    /\ frames = <<>>
    /\ last = Event("Init", 0, 0, 0, "", TRUE, 0, 0, 0)
    /\ tagIn = <<>>
    /\ tagOut = NoTags
    /\ sim = NoSim

AllSignals == UNION {SignalsOf(k) : k \in {"SpinBox", "CheckBox", "TextField", "Action"}}
\* the operations on the binders constructed so far, the widgets displayed and the owners
Step ==
    \/ \E b \in 1..Len(binders) : AddFrame(b)
    \/ \E b \in 1..Len(binders) : Config(b)
    \/ \E b \in 1..Len(binders), cls \in OwnerIds : SetClass(b, cls)
    \/ \E b \in 1..Len(binders), mis \in CastOutcomes : Update(b, mis)
    \/ \E fr \in 1..Len(frames) : \E ix \in 1..Len(frames[fr].kids) :
          \E sig \in AllSignals : \E input \in Inputs(frames[fr].kids[ix], sig) :
             Signal(fr, ix, sig, input)
    \/ \E o \in OwnerIds : \E nm \in Names(owners[o]) :
          \E v \in ValuesOfType(getattr(owners[o], nm).k) : ExternalWrite(o, nm, v)

\* one pygiv editor, constructed with any of the tag dictionaries
Next ==
    \/ binders = <<>> /\ \E tags \in TagDicts : New("pygiv", <<"a">>, tags)
    \/ Step

Spec == Init /\ [][Next]_vars

(***************************************************************************)
(* One editor of either module, pygiv or pygi, on small owners.            *)
(***************************************************************************)
VariantOwners ==
    << <<Fld(f_x, PyInt(3)), Fld(f_g, GoObj(<<>>))>>,
       <<Fld(f_h, PyBool(TRUE)), Fld(f_y, List)>> >>

InitVariants ==
    /\ classviews = [m \in Mods |-> EmptyMap]
    /\ binders = <<>>
    /\ owners = VariantOwners
    /\ frames = <<>>
    /\ last = Event("Init", 0, 0, 0, "", TRUE, 0, 0, 0)
    /\ tagIn = <<>>
    /\ tagOut = NoTags
    /\ sim = NoSim

NextVariants ==
    \/ binders = <<>> /\ \E mod \in Mods : New(mod, <<"a">>, EmptyMap)
    \/ Step

SpecVariants == InitVariants /\ [][NextVariants]_vars

(***************************************************************************)
(* Several pygiv editors whose identifiers the caller chooses: the first is *)
(* "a", the later ones any of Ids ("a" again, "b", or "a:x").              *)
(***************************************************************************)
RouteOwners ==
    << <<Fld(f_x, PyInt(3)), Fld(f_h, PyBool(TRUE))>>,
       <<Fld(f_x, PyInt(3))>> >>

InitRoute ==
    /\ classviews = [m \in Mods |-> EmptyMap]
    /\ binders = <<>>
    /\ owners = RouteOwners
    /\ frames = <<>>
    /\ last = Event("Init", 0, 0, 0, "", TRUE, 0, 0, 0)
    /\ tagIn = <<>>
    /\ tagOut = NoTags
    /\ sim = NoSim

NextRoute ==
    \/ /\ Len(binders) < MaxBinders
       /\ \E name \in (IF binders = <<>> THEN {<<"a">>} ELSE Ids) :
             New("pygiv", name, EmptyMap)
    \/ \E b \in 1..Len(binders) : AddFrame(b)
    \/ \E b \in 1..Len(binders) : Config(b)
    \/ \E b \in 1..Len(binders), cls \in OwnerIds : SetClass(b, cls)
    \/ \E b \in 1..Len(binders), mis \in CastOutcomes : Update(b, mis)
    \/ \E fr \in 1..Len(frames) : \E ix \in 1..Len(frames[fr].kids) :
          \E sig \in AllSignals : \E input \in Inputs(frames[fr].kids[ix], sig) :
             Signal(fr, ix, sig, input)

SpecRoute == InitRoute /\ [][NextRoute]_vars

(***************************************************************************)
(* ra25.py: the SimState object Sim shown in the ClassView "ra25sv".  The  *)
(* toolbar's callbacks call Sim's methods.  One thread of control runs     *)
(* Init, StepTrial, StepEpoch and Train, a statement that assigns a field  *)
(* of Sim at a time; the callbacks of Stop and of Epoch Plot (which calls  *)
(* ClassView.Update) run on the toolkit's side whenever it delivers their  *)
(* events, with nothing in ra25.py ordering them against that thread.      *)
(* Of Sim's fields the model has EpcLog (n = its number of rows), MaxEpcs, *)
(* Epoch, Trial, EpcPctErr (n = its numerator over the number of           *)
(* patterns), CntErr and StopNow.                                          *)
(***************************************************************************)
\* the number of rows of Pats
NPat == 2
\* no trial starts once Epoch or the number of rows of EpcLog has reached EpochCap
EpochCap == 2
\* no trial is counted as an error once CntErr has reached CntCap
CntCap == NPat + 1
\* self.MaxEpcs = 100
DefaultMaxEpcs == 100
\* the values the user gives MaxEpcs in the editor
SimMaxEpcs == {0, 1}

f_EpcLog == <<"E", "p", "c", "L", "o", "g">>
f_MaxEpcs == <<"M", "a", "x", "E", "p", "c", "s">>
f_Epoch == <<"E", "p", "o", "c", "h">>
f_Trial == <<"T", "r", "i", "a", "l">>
f_EpcPctErr == <<"E", "p", "c", "P", "c", "t", "E", "r", "r">>
f_CntErr == <<"C", "n", "t", "E", "r", "r">>
f_StopNow == <<"S", "t", "o", "p", "N", "o", "w">>

\* SimState.__init__ and the Init() of the script's last lines
SimFields ==
    <<Fld(f_EpcLog, DataFrame), Fld(f_MaxEpcs, PyInt(DefaultMaxEpcs)), Fld(f_Epoch, PyInt(0)),
      Fld(f_Trial, PyInt(0)), Fld(f_EpcPctErr, PyFloat(0)), Fld(f_CntErr, PyFloat(0)),
      Fld(f_StopNow, PyBool(FALSE))>>

\* self.Tags, for the fields above
SimTags ==
    (f_EpcPctErr :> Tag(s_inactive, s_plus)) @@ (f_CntErr :> Tag(s_view, s_minus))
        @@ (f_StopNow :> Tag(s_view, s_minus))

s_ra25sv == <<"r", "a", "2", "5", "s", "v">>

\* the ClassView of ConfigGui before SetClass
SimView ==
    [mod |-> "pygiv", Name |-> s_ra25sv, Tags |-> SimTags, Class |-> 1, Frame |-> 2,
     Views |-> NoViews, nfr |-> 2]

\* Sim's thread with no method running.  Of a running method it holds the name (op), the
\* position (pc), the locals curEpc, sse and epc, and for the properties the counters as
\* they were when it was called (entry), whether Stop was called since (stopreq) and the
\* number of times its loop went round after that (passes).
Idle ==
    [pc |-> "idle", op |-> "", curEpc |-> 0, sse |-> 0, epc |-> 0,
     entry |-> [Trial |-> 0, Epoch |-> 0, rows |-> 0], stopreq |-> FALSE, passes |-> 0]

\* the state in which ConfigGui leaves the program: Sim constructed and initialised, its
\* ClassView made, attached and bound
InitSim ==
    LET built == ConfigLoop(SimView, SimFields, 1,
                            [kids |-> <<>>, Views |-> EmptyMap, ndiag |-> 0])
    IN  /\ classviews = [m \in Mods |-> IF m = "pygiv" THEN (s_ra25sv :> 1) ELSE EmptyMap]
        /\ binders = <<[SimView EXCEPT !.Views = [set |-> TRUE, fr |-> 2, ix |-> built.Views]]>>
        /\ owners = <<SimFields>>
        /\ frames = <<[par |-> FALSE, kids |-> <<>>], [par |-> TRUE, kids |-> built.kids]>>
        /\ last = Event("Init", 0, 0, 0, "", TRUE, 0, 0, 0)
        /\ tagIn = <<>>
        /\ tagOut = NoTags
        /\ sim = Idle

Sim(nm) == getattr(owners[1], nm)

\* self.<nm> = v, and the thread moves to pc
Assign(nm, v, pc) ==
    /\ owners' = [owners EXCEPT ![1] = setattr(@, nm, v)]
    /\ sim' = [sim EXCEPT !.pc = pc]
    /\ UNCHANGED <<classviews, binders, frames, last, tagIn, tagOut>>

Goto(pc) ==
    /\ sim' = [sim EXCEPT !.pc = pc]
    /\ UNCHANGED <<classviews, binders, owners, frames, last, tagIn, tagOut>>

\* a toolbar callback calls Sim.Init(), Sim.StepTrial(), Sim.StepEpoch() or Sim.Train()
Call(op) ==
    /\ sim.pc = "idle"
    /\ op \in {"Init", "StepTrial", "StepEpoch", "Train"}
    /\ sim' = [Idle EXCEPT !.op = op,
                           !.entry = [Trial |-> Sim(f_Trial).n, Epoch |-> Sim(f_Epoch).n,
                                      rows |-> Sim(f_EpcLog).n],
                           !.pc = CASE op = "Init" -> "init_max"
                                    [] op = "StepTrial" -> "run"
                                    [] op = "StepEpoch" -> "se_start"
                                    [] op = "Train" -> "train_start"]
    /\ UNCHANGED <<classviews, binders, owners, frames, last, tagIn, tagOut>>

\* SimState.Init, a statement at a time
Init_MaxEpcs ==
    /\ sim.pc = "init_max"
    /\ IF Sim(f_MaxEpcs).n = 0
       THEN Assign(f_MaxEpcs, PyInt(DefaultMaxEpcs), "init_epoch")
       ELSE Goto("init_epoch")

Init_Epoch == sim.pc = "init_epoch" /\ Assign(f_Epoch, PyInt(0), "init_trial")

Init_Trial == sim.pc = "init_trial" /\ Assign(f_Trial, PyInt(0), "init_stop")

Init_StopNow == sim.pc = "init_stop" /\ Assign(f_StopNow, PyBool(FALSE), "init_log")

\* self.EpcLog = self.EpcLog.iloc[0:]: the slice from row 0 on is every row
Init_EpcLog == sim.pc = "init_log" /\ Assign(f_EpcLog, Sim(f_EpcLog), "ret")

\* Train: self.StopNow = False
Train_Start == sim.pc = "train_start" /\ Assign(f_StopNow, PyBool(FALSE), "run")

\* StepEpoch: curEpc = self.Epoch
StepEpoch_Start ==
    /\ sim.pc = "se_start"
    /\ sim' = [sim EXCEPT !.pc = "run", !.curEpc = Sim(f_Epoch).n]
    /\ UNCHANGED <<classviews, binders, owners, frames, last, tagIn, tagOut>>

\* RunTrial: the network settles on pattern Porder[Trial]; sse is the Output layer's error
RunTrial(sse) ==
    /\ sim.pc = "run"
    /\ Sim(f_Epoch).n < EpochCap
    /\ Sim(f_EpcLog).n < EpochCap
    /\ sse # 0 => Sim(f_CntErr).n < CntCap
    /\ sim' = [sim EXCEPT !.pc = "stats", !.sse = sse]
    /\ UNCHANGED <<classviews, binders, owners, frames, last, tagIn, tagOut>>

\* TrialStats(not self.Test): if sse != 0: self.CntErr += 1.0
TrialStats ==
    /\ sim.pc = "stats"
    /\ IF sim.sse # 0
       THEN Assign(f_CntErr, PyFloat(Sim(f_CntErr).n + 1), "inc")
       ELSE Goto("inc")

\* TrialInc that goes to EpochInc without LogEpoch
TrialIncNoLog ==
    /\ sim.pc = "inc"
    /\ Assign(f_Trial, PyInt(Sim(f_Trial).n + 1),
              IF Sim(f_Trial).n + 1 >= NPat THEN "einc_trial" ELSE "check")

\* TrialInc: self.Trial += 1; if self.Trial >= np: LogEpoch, EpochInc
TrialInc ==
    /\ sim.pc = "inc"
    /\ Assign(f_Trial, PyInt(Sim(f_Trial).n + 1),
              IF Sim(f_Trial).n + 1 >= NPat THEN "log_pct" ELSE "check")

\* LogEpoch: self.EpcPctErr = self.CntErr / npat
LogEpoch_PctErr == sim.pc = "log_pct" /\ Assign(f_EpcPctErr, PyFloat(Sim(f_CntErr).n), "log_cnt")

\* LogEpoch: self.CntErr = 0.0
LogEpoch_CntErr == sim.pc = "log_cnt" /\ Assign(f_CntErr, PyFloat(0), "log_row")

\* LogEpoch: epc = self.Epoch; nwdat = [epc, ...]; self.EpcLog.loc[nrow] = nwdat
LogEpoch_Row ==
    /\ sim.pc = "log_row"
    /\ owners' = [owners EXCEPT ![1] = setattr(@, f_EpcLog, [Sim(f_EpcLog) EXCEPT !.n = @ + 1])]
    /\ sim' = [sim EXCEPT !.pc = "einc_trial", !.epc = Sim(f_Epoch).n]
    /\ UNCHANGED <<classviews, binders, frames, last, tagIn, tagOut>>

\* EpochInc: self.Trial = 0
EpochInc_Trial == sim.pc = "einc_trial" /\ Assign(f_Trial, PyInt(0), "einc_epoch")

\* EpochInc: self.Epoch += 1
EpochInc_Epoch == sim.pc = "einc_epoch" /\ Assign(f_Epoch, PyInt(Sim(f_Epoch).n + 1), "check")

\* the test that ends the loop of Train or of StepEpoch; StepTrial has no loop
LoopTest ==
    /\ sim.pc = "check"
    /\ LET stop == Sim(f_StopNow).n # 0
           out == CASE sim.op = "Train" -> stop \/ Sim(f_Epoch).n >= Sim(f_MaxEpcs).n
                    [] sim.op = "StepEpoch" -> stop \/ Sim(f_Epoch).n > sim.curEpc
                    [] OTHER -> TRUE
       IN  sim' = [sim EXCEPT !.pc = IF ~out THEN "run"
                                     ELSE IF sim.op = "StepEpoch" THEN "se_update" ELSE "ret",
                              !.passes = IF ~out /\ sim.stopreq THEN @ + 1 ELSE @]
    /\ UNCHANGED <<classviews, binders, owners, frames, last, tagIn, tagOut>>

\* StepEpoch: self.ClassView.Update(), and the callbacks' Sim.ClassView.Update() after
\* the method has returned
SimUpdate ==
    /\ sim.pc \in {"se_update", "ret"}
    /\ \E mis \in CastOutcomes : UpdateOf(1, mis)
    /\ sim' = IF sim.pc = "se_update" THEN [sim EXCEPT !.pc = "ret"] ELSE [sim EXCEPT !.pc = "idle"]

\* StopCB: Sim.Stop() sets self.StopNow = True
Stop ==
    /\ owners' = [owners EXCEPT ![1] = setattr(@, f_StopNow, PyBool(TRUE))]
    /\ sim' = [sim EXCEPT !.stopreq = @ \/ sim.pc # "idle"]
    /\ UNCHANGED <<classviews, binders, frames, last, tagIn, tagOut>>

\* Update with a lock held by the thread that runs Sim's methods
PlotEpcLogCBLocked == sim.pc = "idle" /\ \E mis \in CastOutcomes : Update(1, mis)

\* PlotEpcLogCB: Sim.ClassView.Update()
PlotEpcLogCB == \E mis \in CastOutcomes : Update(1, mis)

\* the user gives MaxEpcs a value in its SpinBox, whose signal calls SetIntValCB
EditMaxEpcs(v) ==
    LET fr == binders[1].Views.fr
        ix == binders[1].Views.ix[f_MaxEpcs]
        send == [frames[fr].kids[ix] EXCEPT !.val = PyFloat(v)]
        res == Handler(send.cb, send, "SpinBoxValue")
    IN  /\ sim.pc = "idle"
        /\ frames' = [frames EXCEPT ![fr].kids[ix] = send]
        /\ owners' = ApplyWrites(owners, res.wr, 1)
        /\ last' = Event("Signal", 0, fr, ix, "SpinBoxValue", res.ok, 0, 0, Len(res.wr))
        /\ UNCHANGED <<classviews, binders, tagIn, tagOut, sim>>

\* Init, StepTrial, StepEpoch, Train and Stop, and MaxEpcs edited between them; every
\* trial is without error
NextSim ==
    \/ \E op \in {"Init", "StepTrial", "StepEpoch", "Train"} : Call(op)
    \/ Init_MaxEpcs
    \/ Init_Epoch
    \/ Init_Trial
    \/ Init_StopNow
    \/ Init_EpcLog
    \/ Train_Start
    \/ StepEpoch_Start
    \/ RunTrial(0)
    \/ TrialStats
    \/ TrialInc
    \/ LogEpoch_PctErr
    \/ LogEpoch_CntErr
    \/ LogEpoch_Row
    \/ EpochInc_Trial
    \/ EpochInc_Epoch
    \/ LoopTest
    \/ SimUpdate
    \/ Stop
    \/ \E v \in SimMaxEpcs : EditMaxEpcs(v)

SpecSim == InitSim /\ [][NextSim]_vars

\* Init, StepTrial, StepEpoch, Train and Stop, with trials with and without error;
\* MaxEpcs stays as constructed
NextStats ==
    \/ \E op \in {"Init", "StepTrial", "StepEpoch", "Train"} : Call(op)
    \/ Init_MaxEpcs
    \/ Init_Epoch
    \/ Init_Trial
    \/ Init_StopNow
    \/ Init_EpcLog
    \/ Train_Start
    \/ StepEpoch_Start
    \/ \E sse \in {0, 1} : RunTrial(sse)
    \/ TrialStats
    \/ TrialInc
    \/ LogEpoch_PctErr
    \/ LogEpoch_CntErr
    \/ LogEpoch_Row
    \/ EpochInc_Trial
    \/ EpochInc_Epoch
    \/ LoopTest
    \/ SimUpdate
    \/ Stop

SpecStats == InitSim /\ [][NextStats]_vars

\* StepTrial, StepEpoch and Train, with Epoch Plot pressed at any moment
NextRace ==
    \/ \E op \in {"StepTrial", "StepEpoch", "Train"} : Call(op)
    \/ Train_Start
    \/ StepEpoch_Start
    \/ \E sse \in {0, 1} : RunTrial(sse)
    \/ TrialStats
    \/ TrialInc
    \/ LogEpoch_PctErr
    \/ LogEpoch_CntErr
    \/ LogEpoch_Row
    \/ EpochInc_Trial
    \/ EpochInc_Epoch
    \/ LoopTest
    \/ SimUpdate
    \/ PlotEpcLogCB

SpecRace == InitSim /\ [][NextRace]_vars

(***************************************************************************)
(* FieldTags on its own: Tags holds a directive string for field x, any    *)
(* string of TagChars up to MaxTagLen and three longer ones, or holds      *)
(* nothing; field y never has a directive string.                          *)
(***************************************************************************)
TagChars == {"v", ":", "\"", "-", " "}

RECURSIVE Strings(_)
Strings(n) ==
    IF n = 0
    THEN {<<>>}
    ELSE LET S == Strings(n - 1)
         IN  S \cup {Append(t, c) : t \in {u \in S : Len(u) = n - 1}, c \in TagChars}

TagStrings ==
    Strings(MaxTagLen) \cup {Tag(s_inactive, s_plus),
                             <<"b", "a", "d", "t", "o", "k", "e", "n">>,
                             Tag(<<"v">>, <<"a", ":", "b">>)}

InitTags ==
    /\ classviews = [m \in Mods |-> EmptyMap]
    /\ binders = <<>>
    /\ owners = InitOwners
    /\ frames = <<>>
    /\ last = Event("Init", 0, 0, 0, "", TRUE, 0, 0, 0)
    /\ tagIn \in {EmptyMap} \cup {(f_x :> t) : t \in TagStrings}
    /\ tagOut = NoTags
    /\ sim = NoSim

\* self.FieldTags(nm) with self.Tags = tagIn
ParseField(nm) ==
    /\ "nm" \notin DOMAIN tagOut
    /\ tagOut' = LET r == FieldTags(tagIn, nm)
                 IN  [nm |-> nm, tdict |-> r.tdict, ndiag |-> r.ndiag]
    /\ UNCHANGED <<classviews, binders, owners, frames, last, tagIn, sim>>

NextTags == \E nm \in {f_x, f_y} : ParseField(nm)

SpecTags == InitTags /\ [][NextTags]_vars

(***************************************************************************)
(* Properties.                                                             *)
(***************************************************************************)
HasColon(t) == \E i \in 1..Len(t) : t[i] = ":"

\* the binder identifiers are distinct and neither they nor the field names hold a ':'
WellFormedNames ==
    /\ \A b1, b2 \in 1..Len(binders) : binders[b1].Name = binders[b2].Name => b1 = b2
    /\ \A b \in 1..Len(binders) : ~HasColon(binders[b].Name)
    /\ \A o \in OwnerIds : \A nm \in Names(owners[o]) : ~HasColon(nm)

\* the widget at position ix of frame fr is the registry entry of binder b for field f
Built(b, f, fr, ix) ==
    /\ binders[b].Views.set
    /\ binders[b].Views.fr = fr
    /\ f \in DOMAIN binders[b].Views.ix
    /\ binders[b].Views.ix[f] = ix

ChangeSignals == {"SpinBoxValue", "TextFieldDone", "ButtonToggled"}

\* what the widget at the place the last signal came from shows now
Sent == frames[last.fr].kids[last.ix].val

\* C1: with distinct identifiers and no ':' in identifiers or field names, a change
\* event from the widget Config built for field f of binder b writes the widget's value
\* to field f of b's current owner, and changes no other field of any owner.
C1_Routing ==
    \A b \in 1..Len(binders) : \A f \in DOMAIN binders[b].Views.ix :
       (WellFormedNames /\ last.op = "Signal" /\ last.sig \in ChangeSignals
           /\ Built(b, f, last.fr, last.ix))
       => /\ last.ok
          /\ owners = [last.old EXCEPT ![binders[b].Class] = setattr(@, f, Sent)]

\* a change event from a widget of the second of two well-named binders bound to
\* different owners has been handled
C1_Witness ==
    /\ Len(binders) = 2
    /\ WellFormedNames
    /\ binders[1].Class # None
    /\ binders[2].Class # None
    /\ binders[1].Class # binders[2].Class
    /\ last.op = "Signal"
    /\ last.sig \in ChangeSignals
    /\ last.ok
    /\ binders[2].Views.fr = last.fr

\* field f is hidden from binder b's view by view:"-"
Hidden(b, f) == HasTagValue(FieldTags(binders[b].Tags, f).tdict, s_view, s_minus)

\* the fields of b's owner that are not hidden
Visible(b) == {f \in Names(owners[binders[b].Class]) : ~Hidden(b, f)}

\* the operation that led here is a rebuild of binder b that returned
Rebuilt(b) == last.op \in {"Config", "SetClass"} /\ last.b = b /\ last.ok

Kids(b) == frames[binders[b].Frame].kids

\* C2: every key of Views names a field that the owner has and that view:"-" does not hide.
C2_RegistryKeys ==
    \A b \in 1..Len(binders) : \A f \in DOMAIN binders[b].Views.ix :
       /\ binders[b].Class # None
       /\ f \in Names(owners[binders[b].Class])
       /\ ~Hidden(b, f)

\* the binder was bound anew over a frame that had children, to an owner with a hidden
\* field and a visible one
C2_Witness ==
    /\ Len(binders) = 1
    /\ last.op = "SetClass"
    /\ last.pre > 0
    /\ DOMAIN binders[1].Views.ix # {}
    /\ \E f \in Names(owners[binders[1].Class]) : Hidden(1, f)

\* C3: a rebuild leaves exactly N labels, N value widgets and N registry entries, N the
\* number of the owner's fields not hidden, whatever the frame held before.
C3_Counts ==
    \A b \in 1..Len(binders) :
       Rebuilt(b)
       => LET N == Cardinality(Visible(b))
          IN  /\ Cardinality({i \in 1..Len(Kids(b)) : Kids(b)[i].kind = "Label"}) = N
              /\ Cardinality({i \in 1..Len(Kids(b)) : Kids(b)[i].kind # "Label"}) = N
              /\ Cardinality(DOMAIN binders[b].Views.ix) = N

\* a rebuild over a frame that held more children than the rebuild leaves, with a field hidden
C3_Witness ==
    /\ Len(binders) = 1
    /\ Rebuilt(1)
    /\ last.pre > Len(Kids(1))
    /\ Len(Kids(1)) > 0
    /\ Cardinality(Visible(1)) < Len(owners[binders[1].Class])

\* no child of b's frame is the label or the widget of field f, and f has no registry entry
NoTrace(b, f) ==
    /\ f \notin DOMAIN binders[b].Views.ix
    /\ \A i \in 1..Len(Kids(b)) :
          /\ Kids(b)[i].name # s_lbl \o f
          /\ Kids(b)[i].name # binders[b].Name \o <<":">> \o f

\* C4: a rebuild creates no label, widget or registry entry for a field with view:"-",
\* and a refresh changes no widget but the registry's widgets of fields that are not
\* hidden.
C4_Hidden ==
    \A b \in 1..Len(binders) :
       /\ Rebuilt(b) => \A f \in Names(owners[binders[b].Class]) :
                            Hidden(b, f) => NoTrace(b, f)
       /\ (last.op = "Update" /\ last.b = b)
          => \A i \in last.chg : \E f \in Visible(b) : Built(b, f, last.fr, i)

\* a refresh has run while the owner held a hidden field whose value the program changed
C4_Witness ==
    /\ Len(binders) = 1
    /\ last.op = "Update"
    /\ last.ok
    /\ last.chg # {}
    /\ \E i \in 1..Len(owners[binders[1].Class]) :
          /\ Hidden(1, owners[binders[1].Class][i].nm)
          /\ owners[binders[1].Class][i] # InitOwners[binders[1].Class][i]

\* the widget kind the precedence gives a value
KindFor(val) ==
    IF val.k = "bool" THEN "CheckBox"
    ELSE IF val.k \in {"GoClass", "DataFrame"} THEN "Action"
    ELSE IF val.k \in {"int", "float"} THEN "SpinBox"
    ELSE "TextField"

\* C5: after a rebuild by the ClassView of either module, the widget of every field is of
\* the kind the precedence gives the field's value: bool a CheckBox, engine object and
\* table an Action, int and float a SpinBox, anything else a TextField; and the rebuild
\* returned.
C5_Kinds ==
    \A b \in 1..Len(binders) :
       (last.op \in {"Config", "SetClass"} /\ last.b = b /\ binders[b].Class # None)
       => /\ last.ok
          /\ \A f \in DOMAIN binders[b].Views.ix :
                Kids(b)[binders[b].Views.ix[f]].kind = KindFor(getattr(owners[binders[b].Class], f))

\* C6: after a rebuild the widget of an int field x = v is a SpinBox showing v, and a
\* value w committed on that widget makes the owner's x equal to w.
C6_RoundTrip ==
    \A b \in 1..Len(binders) : \A f \in DOMAIN binders[b].Views.ix :
       /\ (Rebuilt(b) /\ getattr(owners[binders[b].Class], f).k = "int")
          => /\ Kids(b)[binders[b].Views.ix[f]].kind = "SpinBox"
             /\ Kids(b)[binders[b].Views.ix[f]].val.n = getattr(owners[binders[b].Class], f).n
       /\ (/\ last.op = "Signal"
           /\ last.sig = "SpinBoxValue"
           /\ Built(b, f, last.fr, last.ix)
           /\ getattr(last.old[binders[b].Class], f).k = "int")
          => /\ getattr(owners[binders[b].Class], f).k \in {"int", "float"}
             /\ getattr(owners[binders[b].Class], f).n = Sent.n

\* the int field x = 3 was shown, and 7 committed on its SpinBox
C6_Witness ==
    /\ Len(binders) = 1
    /\ Built(1, f_x, last.fr, last.ix)
    /\ last.op = "Signal"
    /\ last.sig = "SpinBoxValue"
    /\ getattr(last.old[binders[1].Class], f_x) = PyInt(3)
    /\ getattr(owners[binders[1].Class], f_x).n = 7

\* C7: a toggle of a bool field's CheckBox makes exactly one write, of that field;
\* any other signal of the CheckBox, a rebuild and a refresh make no write.
C7_BoolWrites ==
    /\ last.op \in {"Config", "SetClass", "Update"} => last.nw = 0 /\ owners = last.old
    /\ \A b \in 1..Len(binders) : \A f \in DOMAIN binders[b].Views.ix :
          (/\ last.op = "Signal"
           /\ Built(b, f, last.fr, last.ix)
           /\ frames[last.fr].kids[last.ix].kind = "CheckBox")
          => IF last.sig = "ButtonToggled"
             THEN /\ last.nw = 1
                  /\ owners = [last.old EXCEPT ![binders[b].Class] = setattr(@, f, Sent)]
             ELSE last.nw = 0 /\ owners = last.old

\* the CheckBox of a bool field was toggled
C7_Witness ==
    /\ last.op = "Signal"
    /\ last.sig = "ButtonToggled"
    /\ frames[last.fr].kids[last.ix].kind = "CheckBox"
    /\ last.nw = 1
    /\ binders[1].Views.fr = last.fr

\* C8: a signal of a TextField other than TextFieldDone leaves every field of every
\* owner as it was, under the handlers of both modules; TextFieldDone writes the field.
C8_TextCommit ==
    (last.op = "Signal" /\ frames[last.fr].kids[last.ix].kind = "TextField")
    => IF last.sig = "TextFieldDone"
       THEN last.nw = 1
       ELSE last.nw = 0 /\ owners = last.old

\* a TextField whose text is not its field's value gave a signal other than TextFieldDone
C8_Witness ==
    /\ Len(binders) = 1
    /\ last.op = "Signal"
    /\ last.sig \in {"TextFieldCleared", "TextFieldDeFocused"}
    /\ frames[last.fr].kids[last.ix].kind = "TextField"
    /\ \E f \in DOMAIN binders[1].Views.ix :
          /\ Built(1, f, last.fr, last.ix)
          /\ Sent # PyStr(str(getattr(owners[binders[1].Class], f)))

\* field f of binder b is tagged inactive:"+"
ReadOnly(b, f) == HasTagValue(FieldTags(binders[b].Tags, f).tdict, s_inactive, s_plus)

\* widget w displays val
Shows(w, val) ==
    CASE w.kind = "CheckBox" -> w.val = PyBool(val.n # 0)
      [] w.kind = "SpinBox" -> w.val.n = val.n
      [] w.kind = "TextField" -> w.val = PyStr(str(val))
      [] OTHER -> TRUE

\* C9: the widget a rebuild makes for a field tagged inactive:"+" is inactive, an edit
\* of it changes no owner, and after a refresh it displays the field's current value
\* unless the field is an engine object or a table.
C9_Inactive ==
    \A b \in 1..Len(binders) : \A f \in DOMAIN binders[b].Views.ix :
       ReadOnly(b, f)
       => /\ Rebuilt(b) => Kids(b)[binders[b].Views.ix[f]].inactive
          /\ Built(b, f, last.fr, last.ix) /\ last.op \in {"Signal", "Rejected"}
             => last.op = "Rejected" /\ owners = last.old
          /\ (last.op = "Update" /\ last.b = b /\ last.ok)
             => Shows(Kids(b)[binders[b].Views.ix[f]], getattr(owners[binders[b].Class], f))

\* a refresh changed the widget of an inactive field after an edit of that widget was
\* rejected: the widget now shows a value the field did not have at the start
C9_Witness ==
    /\ Len(binders) = 1
    /\ last.op = "Update"
    /\ last.ok
    /\ \E f \in DOMAIN binders[1].Views.ix :
          /\ ReadOnly(1, f)
          /\ binders[1].Views.ix[f] \in last.chg
          /\ Kids(1)[binders[1].Views.ix[f]].kind \in {"SpinBox", "TextField", "CheckBox"}

NoChar(t, c) == \A i \in 1..Len(t) : t[i] # c

\* token t is of the form name:"value": a name without ':' or '"', a ':', and a value
\* without '"' between two '"'
WellFormedToken(t) ==
    \E i \in 1..Len(t) :
       /\ t[i] = ":"
       /\ NoChar(SubSeq(t, 1, i - 1), ":") /\ NoChar(SubSeq(t, 1, i - 1), "\"")
       /\ Len(t) >= i + 2
       /\ t[i + 1] = "\"" /\ t[Len(t)] = "\""
       /\ NoChar(SubSeq(t, i + 2, Len(t) - 1), "\"")

FirstColon(t) == CHOOSE i \in 1..Len(t) : t[i] = ":" /\ NoChar(SubSeq(t, 1, i - 1), ":")

TokenName(t) == SubSeq(t, 1, FirstColon(t) - 1)

TokenValue(t) == SubSeq(t, FirstColon(t) + 2, Len(t) - 1)

\* C10: FieldTags gives, for every space-separated token of the form name:"value", the
\* entry name -> value, and for every other token no entry and one diagnostic; for a
\* field without a directive string it gives the empty mapping and no diagnostic.
C10_FieldTags ==
    "nm" \in DOMAIN tagOut
    => IF tagOut.nm \notin DOMAIN tagIn
       THEN tagOut.tdict = EmptyMap /\ tagOut.ndiag = 0
       ELSE LET ts == split(tagIn[tagOut.nm], " ")
                good == {i \in 1..Len(ts) : WellFormedToken(ts[i])}
            IN  /\ \A i \in good :
                      /\ TokenName(ts[i]) \in DOMAIN tagOut.tdict
                      /\ tagOut.tdict[TokenName(ts[i])] = TokenValue(ts[i])
                /\ DOMAIN tagOut.tdict = {TokenName(ts[i]) : i \in good}
                /\ tagOut.ndiag = Len(ts) - Cardinality(good)

\* the directive string of field f of binder b holds a token not of the form name:"value"
HasMalformed(b, f) ==
    /\ f \in DOMAIN binders[b].Tags
    /\ \E i \in 1..Len(split(binders[b].Tags[f], " ")) :
          ~WellFormedToken(split(binders[b].Tags[f], " ")[i])

\* C11: a rebuild returns also when a field's directive string holds a malformed token;
\* it prints a diagnostic, and the field gets the label, the widget and the registry
\* entry that a field with no directive string gets.
C11_Malformed ==
    \A b \in 1..Len(binders) :
       (last.op \in {"Config", "SetClass"} /\ last.b = b /\ binders[b].Class # None)
       => /\ last.ok
          /\ \A i \in 1..Len(owners[binders[b].Class]) :
                LET f == owners[binders[b].Class][i].nm
                    val == owners[binders[b].Class][i].val
                IN  HasMalformed(b, f)
                    => /\ last.ndiag >= 1
                       /\ f \in DOMAIN binders[b].Views.ix
                       /\ Kids(b)[binders[b].Views.ix[f] - 1] = Label(f)
                       /\ Kids(b)[binders[b].Views.ix[f]] = ViewOf(binders[b], f, val, EmptyMap)

\* C12: every rebuild, by the ClassView of either module, starts the frame's update scope
\* once and ends it once, also when it raises: none leaves the scope open.
C12_UpdateScope ==
    last.op \in {"Config", "SetClass"} => last.starts = 1 /\ last.ends = 1

C14_RefreshFrame ==
    [][last'.op = "Update"
       => /\ binders' = binders
          /\ classviews' = classviews
          /\ Len(frames') = Len(frames)
          /\ \A fr \in 1..Len(frames) :
                /\ Len(frames'[fr].kids) = Len(frames[fr].kids)
                /\ frames'[fr].par = frames[fr].par
                /\ \A i \in 1..Len(frames[fr].kids) :
                      frames'[fr].kids[i]
                         = [frames[fr].kids[i] EXCEPT !.val = frames'[fr].kids[i].val]
          /\ last'.starts = 0
          /\ last'.ends = 0]_vars

\* a refresh by pygi's ClassView changed a widget
C14_Witness ==
    /\ Len(binders) = 1
    /\ binders[1].mod = "pygi"
    /\ last.op = "Update"
    /\ last.ok
    /\ last.chg # {}

\* C15: a refresh writes no field of any owner; an edit of a widget changes no widget
\* but the one edited, rebuilds nothing and starts no update scope; and no step both
\* writes an owner and changes a widget other than the one edited.
C15_NoFeedback ==
    [][/\ last'.op = "Update" => owners' = owners
       /\ last'.op \in {"Signal", "Rejected"}
          => /\ binders' = binders
             /\ Len(frames') = Len(frames)
             /\ \A fr \in 1..Len(frames) :
                   /\ Len(frames'[fr].kids) = Len(frames[fr].kids)
                   /\ \A i \in 1..Len(frames[fr].kids) :
                         frames'[fr].kids[i] # frames[fr].kids[i]
                         => fr = last'.fr /\ i = last'.ix
             /\ last'.starts = 0
       /\ owners' # owners
          => \A fr \in 1..Len(frames) :
                /\ Len(frames'[fr].kids) = Len(frames[fr].kids)
                /\ \A i \in 1..Len(frames[fr].kids) :
                      frames'[fr].kids[i] # frames[fr].kids[i]
                      => last'.op = "Signal" /\ fr = last'.fr /\ i = last'.ix]_vars

\* an edit wrote a field while another widget of the registry did not show its field's
\* value, and that widget is still as it was
C15_Witness ==
    /\ Len(binders) = 1
    /\ last.op = "Signal"
    /\ last.nw = 1
    /\ owners # last.old
    /\ \E f \in DOMAIN binders[1].Views.ix :
          /\ binders[1].Views.ix[f] # last.ix
          /\ ~Shows(Kids(1)[binders[1].Views.ix[f]], getattr(owners[binders[1].Class], f))

DistinctNames ==
    \A b1, b2 \in 1..Len(binders) : binders[b1].Name = binders[b2].Name => b1 = b2

\* C16: the constructor defines classviews[n]; no step removes a key of classviews; and
\* while the identifiers are distinct classviews maps each binder's identifier to that
\* binder.
C16_AppendOnly ==
    [][/\ \A mod \in Mods : DOMAIN classviews[mod] \subseteq DOMAIN classviews'[mod]
       /\ last'.op = "New"
          => /\ Len(binders') = Len(binders) + 1
             /\ binders'[last'.b].Name \in DOMAIN classviews'[binders'[last'.b].mod]
             /\ classviews'[binders'[last'.b].mod][binders'[last'.b].Name] = last'.b
       /\ DistinctNames'
          => \A b \in 1..Len(binders') :
                /\ binders'[b].Name \in DOMAIN classviews'[binders'[b].mod]
                /\ classviews'[binders'[b].mod][binders'[b].Name] = b]_vars

\* two binders of distinct identifiers, both bound, and an edit has been handled
C16_Witness ==
    /\ Len(binders) = 2
    /\ DistinctNames
    /\ binders[1].Class # None
    /\ binders[2].Class # None
    /\ last.op = "Signal"
    /\ last.ok
    /\ Cardinality(DOMAIN classviews["pygiv"]) = 2

\* the binder constructed last among those with the identifier of binder b
Latest(b) ==
    CHOOSE c \in 1..Len(binders) :
       /\ binders[c].Name = binders[b].Name
       /\ \A d \in 1..Len(binders) : binders[d].Name = binders[b].Name => d <= c

\* classviews holds one key per identifier in use, bound to the binder constructed last
\* with it, and no constructor raised
LastRegistered ==
    /\ last.op = "New" => last.ok
    /\ Cardinality(DOMAIN classviews["pygiv"])
          = Cardinality({binders[b].Name : b \in 1..Len(binders)})
    /\ \A b \in 1..Len(binders) : classviews["pygiv"][binders[b].Name] = Latest(b)

\* C17 as stated: a second ClassView with an identifier in use replaces the registry
\* entry without error and without a new key, and every change event from a widget of
\* a binder with that identifier is written to the owner of the binder constructed last.
C17_LastWriteWins ==
    /\ LastRegistered
    /\ \A b \in 1..Len(binders) : \A f \in DOMAIN binders[b].Views.ix :
          (/\ ~DistinctNames
           /\ \A c \in 1..Len(binders) : ~HasColon(binders[c].Name)
           /\ last.op = "Signal"
           /\ last.sig \in ChangeSignals
           /\ Built(b, f, last.fr, last.ix))
          => /\ last.ok
             /\ last.nw = 1
             /\ owners = [last.old EXCEPT ![binders[Latest(b)].Class] = setattr(@, f, Sent)]

\* C17 amended: as stated when the binder constructed last is bound to an owner; while
\* it is not, the handler raises and no owner is written.
C17_LastWriteWinsBound ==
    /\ LastRegistered
    /\ \A b \in 1..Len(binders) : \A f \in DOMAIN binders[b].Views.ix :
          (/\ ~DistinctNames
           /\ \A c \in 1..Len(binders) : ~HasColon(binders[c].Name)
           /\ last.op = "Signal"
           /\ last.sig \in ChangeSignals
           /\ Built(b, f, last.fr, last.ix))
          => IF binders[Latest(b)].Class = None
             THEN ~last.ok /\ last.nw = 0 /\ owners = last.old
             ELSE /\ last.ok
                  /\ last.nw = 1
                  /\ owners = [last.old EXCEPT ![binders[Latest(b)].Class] = setattr(@, f, Sent)]

\* a widget built by the first of two binders named alike was edited, the two bound to
\* different owners, and the write went to the second binder's owner
C17_Witness ==
    /\ Len(binders) = 2
    /\ ~DistinctNames
    /\ binders[1].Class # None
    /\ binders[2].Class # None
    /\ binders[1].Class # binders[2].Class
    /\ last.op = "Signal"
    /\ last.sig \in ChangeSignals
    /\ binders[1].Views.fr = last.fr
    /\ last.nw = 1
    /\ owners[binders[2].Class] # last.old[binders[2].Class]
    /\ owners[binders[1].Class] = last.old[binders[1].Class]

\* the widget of ra25sv that displays field nm of Sim
SimWidget(nm) == frames[binders[1].Views.fr].kids[binders[1].Views.ix[nm]]

\* Sim's thread is between two trials: in no trial, or about to run or having just run one
TrialBoundary == sim.pc \in {"idle", "train_start", "se_start", "run", "check", "se_update", "ret"}

\* the fields of Sim that ra25sv displays
SimShown == {f_MaxEpcs, f_Epoch, f_Trial, f_EpcPctErr}

\* C18: with Sim's methods on a thread of their own, nothing orders ClassView.Update()
\* against the thread's assignments: Update can run at every position of the thread, and
\* the widgets display the values the fields had at the position where it last ran.  At a trial boundary Trial is
\* below the number of patterns, so a display of another value of Trial is a combination
\* Sim held at no trial boundary.
C18_Race ==
    /\ ENABLED PlotEpcLogCB
    /\ TrialBoundary => Sim(f_Trial).n < NPat
    /\ last.op = "Update"
          => /\ last.ok
             /\ \A nm \in SimShown : Shows(SimWidget(nm), getattr(last.old[1], nm))

C18_Witness ==
    /\ last.op = "Update"
    /\ ~TrialBoundary
    /\ SimWidget(f_Trial).val.n = NPat
    /\ SimWidget(f_Epoch).val.n = 0
    /\ Sim(f_EpcLog).n = 1

\* C19: when Init returns, without a Stop during the call, Epoch = 0, Trial = 0, StopNow is
\* False, MaxEpcs is not 0 and EpcLog has no rows.
C19_InitRestarts ==
    sim.op = "Init" /\ sim.pc = "ret" /\ ~sim.stopreq
        => /\ Sim(f_Epoch) = PyInt(0)
           /\ Sim(f_Trial) = PyInt(0)
           /\ Sim(f_StopNow) = PyBool(FALSE)
           /\ Sim(f_MaxEpcs).n # 0
           /\ Sim(f_EpcLog).n = 0

\* C20: after a Stop during Train or StepEpoch the loop goes round no more: it starts no
\* trial after the one it was in or at.
C20_StopHonoured ==
    sim.stopreq /\ sim.op \in {"Train", "StepEpoch"} => sim.passes = 0

\* C21: when StepEpoch returns, without a Stop during the call, Trial = 0 and Epoch is one
\* more than it was when StepEpoch was called.
C21_StepEpoch ==
    sim.op = "StepEpoch" /\ sim.pc \in {"se_update", "ret"} /\ ~sim.stopreq
        => /\ Sim(f_Trial) = PyInt(0)
           /\ Sim(f_Epoch) = PyInt(sim.curEpc + 1)

\* C22: Train returns after a trial exactly when StopNow is set or Epoch >= MaxEpcs, and
\* no increment of Epoch made by Train takes it beyond MaxEpcs.
C22_TrainLimit ==
    [][sim.op = "Train"
         => /\ sim.pc = "check" /\ sim'.pc # "check"
                => (sim'.pc = "ret"
                       <=> Sim(f_StopNow).n # 0 \/ Sim(f_Epoch).n >= Sim(f_MaxEpcs).n)
            /\ sim.pc = "einc_epoch" /\ sim'.pc = "check"
                => Sim(f_Epoch)'.n <= Sim(f_MaxEpcs)'.n]_vars

\* the widget class in which Update of module mod wraps the widget of a field that holds
\* val; "" where it wraps it in none
UpdateKind(mod, val) ==
    IF mod = "pygiv"
    THEN IF val.k = "bool" THEN "CheckBox"
         ELSE IF val.k \in {"GoClass", "DataFrame"} THEN ""
         ELSE IF IsNum(val) THEN "SpinBox"
         ELSE "TextField"
    ELSE IF IsInt(val) THEN "SpinBox" ELSE "TextField"

\* the registry of binder b has a widget for field f of the owner b is bound to
Registered(b, f) ==
    /\ binders[b].Class # None
    /\ binders[b].Views.set
    /\ f \in DOMAIN binders[b].Views.ix
    /\ f \in Names(owners[binders[b].Class])

\* binder b's Update would wrap the widget of field f in the class the widget is of
KindAgrees(b, f) ==
    LET cv == binders[b]
        kind == UpdateKind(cv.mod, getattr(owners[cv.Class], f))
    IN  kind # "" => frames[cv.Views.fr].kids[cv.Views.ix[f]].kind = kind

\* C23: for every field in the registry of an editor of either module, Update selects from
\* the field's current value the kind of the widget that Config made for it.
C23_KindAgreement ==
    \A b \in 1..Len(binders) : \A f \in DOMAIN binders[b].Views.ix :
       Registered(b, f) => KindAgrees(b, f)

\* 1 when the operation that runs has taken Trial back to 0, else 0
Wrapped == IF Sim(f_Trial).n = 0 THEN 1 ELSE 0

\* C24: when an operation returns, 0 <= Trial < npat.  StepTrial returns with Trial one
\* more than at its call, modulo npat, and with Epoch one more exactly when Trial is back
\* at 0.  In Train and StepEpoch too, between trials, Epoch has grown by the number of rows
\* LogEpoch has added, and the last row added holds the Epoch before its increment.
C24_Counters ==
    /\ sim.pc = "ret" => Sim(f_Trial).n \in 0..(NPat - 1)
    /\ sim.pc = "ret" /\ sim.op = "StepTrial"
          => /\ Sim(f_Trial).n = (sim.entry.Trial + 1) % NPat
             /\ Sim(f_Epoch).n = sim.entry.Epoch + Wrapped
    /\ sim.pc \in {"check", "run", "se_update", "ret"} /\ sim.op \in {"StepTrial", "StepEpoch", "Train"}
          => /\ Sim(f_Epoch).n - sim.entry.Epoch = Sim(f_EpcLog).n - sim.entry.rows
             /\ Sim(f_Epoch).n > sim.entry.Epoch => sim.epc = Sim(f_Epoch).n - 1

C24_Witness ==
    /\ sim.pc = "ret"
    /\ sim.op = "StepTrial"
    /\ sim.entry.Trial = NPat - 1
    /\ Sim(f_Trial).n = 0
    /\ Sim(f_Epoch).n = sim.entry.Epoch + 1
    /\ Sim(f_EpcLog).n > Sim(f_Epoch).n

\* C25: when LogEpoch begins CntErr is at most npat, so that EpcPctErr = CntErr / npat is
\* in [0, 1], and when LogEpoch has ended CntErr is 0.
C25_Stats ==
    /\ sim.pc = "log_pct" => Sim(f_CntErr).n \in 0..NPat
    /\ Sim(f_EpcPctErr).n \in 0..NPat
    /\ sim.pc = "einc_trial" => Sim(f_CntErr).n = 0

====
